---------------------------- MODULE Spec2Model ----------------------------
(***************************************************************************)
(* MemoryGraph (mem0/memory/graph_memory.py): a per-user knowledge graph   *)
(* kept in a labelled-property graph store.  The store is modelled as a    *)
(* set of nodes and a set of edges; every Cypher query the module issues   *)
(* is one atomic operator over them.  Names, labels and relation types     *)
(* are sequences of one-character strings so that lower() and replace()    *)
(* act on them.                                                            *)
(***************************************************************************)
EXTENDS Integers, Sequences, FiniteSets

VARIABLES nodes, edges, clock, user_id, pc, call, ret

vars == <<nodes, edges, clock, user_id, pc, call, ret>>

---------------------------------------------------------------------------
(* Bounds of the model.                                                    *)

MaxClock == 1   \* timestamp() takes the values 0..MaxClock
MaxCalls == 2   \* tool calls in one reconciliation response
MaxCands == 2   \* candidate node names in one search response
MaxNodes == 4   \* nodes in the store
MaxEdges == 3   \* edges in the store

(* Program constants.                                                      *)

Threshold == 7000   \* self.threshold = 0.7, in units of 1e-4
TopN == 5           \* bm25.get_top_n(..., n=5)
Precision == 10000  \* round(..., 4)

None == "None"
NoLabel == <<>>     \* a node merged without a label
NoEmbedding == <<>> \* a node without the embedding property
NoTime == -1        \* a node or edge without the created property

---------------------------------------------------------------------------
(* Inputs.                                                                 *)

Users == {"u1", "u2"}

Al == <<"a", "l">>
AC == <<"A", " ", "c">>
Qr == <<"q", "r">>
Qx == <<"Q", "x">>
Ql == <<"q", "l">>
TPerson == <<"p">>
TOrg == <<"O">>
RWas == <<"w", "a", "s">>
RIs == <<"I", " ", "s">>

RawTypes == {TPerson, TOrg}
RawRels == {RWas, RIs}
CandNames == {Al, Qr, Qx, Ql}

---------------------------------------------------------------------------
(* str.lower().replace(" ", "_")                                           *)

Lower(c) ==
    CASE c = "A" -> "a"
      [] c = "C" -> "c"
      [] c = "I" -> "i"
      [] c = "O" -> "o"
      [] c = "Q" -> "q"
      [] OTHER -> c

Normalize(s) == [i \in DOMAIN s |-> IF Lower(s[i]) = " " THEN "_" ELSE Lower(s[i])]

(* embedding_model.embed: the embedder is an external service; here it is  *)
(* a fixed table of integer vectors whose Euclidean norms are integers, so *)
(* that the similarity of the retrieval query is an exact rational.        *)
Embed(name) ==
    CASE name = <<"a", "l">> -> <<2, 19, 34, 0>>
      [] name = <<"a", "_", "c">> -> <<4, 3, 0, 0>>
      [] name = <<"q", "r">> -> <<51, 48, 32, 0>>
      [] name = <<"q", "x">> -> <<1, 1, -1, 1>>
      [] name = <<"q", "l">> -> <<2, 26, 7, 0>>
      [] OTHER -> <<0, 0, 0, 1>>

RECURSIVE DotFrom(_, _, _)
DotFrom(a, b, i) == IF i > Len(a) THEN 0 ELSE a[i] * b[i] + DotFrom(a, b, i + 1)

(* reduce(dot = 0.0, i IN range(0, size(a)-1) | dot + a[i] * b[i])        *)
Dot(a, b) == DotFrom(a, b, 1)

RECURSIVE SqrtFrom(_, _)
SqrtFrom(n, r) == IF (r + 1) * (r + 1) > n THEN r ELSE SqrtFrom(n, r + 1)

(* sqrt, exact on the squares the embedding table produces                 *)
Sqrt(n) == SqrtFrom(n, 0)

(* round(x, 4) of the rational num/den (den > 0), in units of 1e-4; ties   *)
(* round away from zero.                                                   *)
Round4(num, den) ==
    IF num >= 0
    THEN (2 * Precision * num + den) \div (2 * den)
    ELSE 0 - ((2 * Precision * (0 - num) + den) \div (2 * den))

(* round(dot(a, b) / (sqrt(dot(a, a)) * sqrt(dot(b, b))), 4)              *)
Cosine4(a, b) == Round4(Dot(a, b), Sqrt(Dot(a, a)) * Sqrt(Dot(b, b)))

Embeddings == {Embed(Normalize(c)) : c \in CandNames \cup {AC}}

(* Cosine4 over the embeddings in use, computed once.                      *)
CosineTable == [p \in Embeddings \X Embeddings |-> Cosine4(p[1], p[2])]

(* The similarity column of the retrieval query.                           *)
Similarity(a, b) == CosineTable[<<a, b>>]

---------------------------------------------------------------------------
(* The graph store and the module's Cypher queries.                        *)
(* A node is [id, name, label, user, embedding, created]; an edge is       *)
(* [id, src, type, dst, created], src and dst being node ids.              *)

(* elementId of a created entity: the least id not in use.                 *)
FreshId(used) ==
    CHOOSE i \in 1..(Cardinality(used) + 1) :
        i \notin used /\ \A j \in 1..(i - 1) : j \in used

Ids(S) == {x.id : x \in S}

NodeOf(ns, id) == CHOOSE n \in ns : n.id = id

(* The pattern (n:label {name: $name, user_id: $user_id}); NoLabel is the  *)
(* pattern without a label, which a node of any label matches.             *)
Match(ns, label, name, user) ==
    {n \in ns : /\ (label = NoLabel \/ n.label = label)
                /\ n.name = name
                /\ n.user = user}

(* UpsertNode with the ON MATCH branch setting created as well: the        *)
(* variant C3 has to tell from UpsertNode.                                 *)
UpsertNodeStamped(ns, label, name, user, emb, now) ==
    IF Match(ns, label, name, user) = {}
    THEN ns \cup {[id |-> FreshId(Ids(ns)), name |-> name, label |-> label,
                   user |-> user, embedding |-> emb, created |-> now]}
    ELSE {IF n \in Match(ns, label, name, user)
          THEN [n EXCEPT !.embedding = emb, !.created = now] ELSE n : n \in ns}

(* MERGE (n:label {name, user_id})                                         *)
(*   ON CREATE SET n.created = timestamp(), n.embedding = $embedding       *)
(*   ON MATCH  SET n.embedding = $embedding                                *)
UpsertNode(ns, label, name, user, emb, now) ==
    IF Match(ns, label, name, user) = {}
    THEN ns \cup {[id |-> FreshId(Ids(ns)), name |-> name, label |-> label,
                   user |-> user, embedding |-> emb, created |-> now]}
    ELSE {IF n \in Match(ns, label, name, user)
          THEN [n EXCEPT !.embedding = emb] ELSE n : n \in ns}

(* MERGE (n)-[rel:type]->(m) ON CREATE SET rel.created = timestamp(), for  *)
(* every row (n, m) of the query.                                          *)
RECURSIVE MergeEdges(_, _, _, _)
MergeEdges(es, pairs, type, now) ==
    IF pairs = {} THEN es
    ELSE LET p == CHOOSE q \in pairs : TRUE
             there == \E e \in es : e.src = p[1] /\ e.type = type /\ e.dst = p[2]
             es1 == IF there THEN es
                    ELSE es \cup {[id |-> FreshId(Ids(es)), src |-> p[1],
                                   type |-> type, dst |-> p[2], created |-> now]}
         IN MergeEdges(es1, pairs \ {p}, type, now)

(* The upsert query of add, on normalized arguments.                       *)
UpsertQuery(ns, es, source, source_type, relation, destination, destination_type, user, now) ==
    LET ns1 == UpsertNode(ns, source_type, source, user, Embed(source), now)
        ns2 == UpsertNode(ns1, destination_type, destination, user,
                          Embed(destination), now)
        N == Ids(Match(ns2, source_type, source, user))
        M == Ids(Match(ns2, destination_type, destination, user))
    IN [nodes |-> ns2, edges |-> MergeEdges(es, N \X M, relation, now)]

(* MERGE (n {name, user_id}): no label, no created, no embedding.          *)
MergeNode(ns, name, user) ==
    IF Match(ns, NoLabel, name, user) = {}
    THEN ns \cup {[id |-> FreshId(Ids(ns)), name |-> name, label |-> NoLabel,
                   user |-> user, embedding |-> NoEmbedding, created |-> NoTime]}
    ELSE ns

(* check_and_create_query with MATCH in the place of MERGE: the variant    *)
(* C10 has to tell from CheckAndCreateQuery.                               *)
CheckWithoutCreate(ns, source, target, user) == ns

(* check_and_create_query of _update_relationship                          *)
CheckAndCreateQuery(ns, source, target, user) ==
    MergeNode(MergeNode(ns, source, user), target, user)

(* The rows (n1, n2) of MATCH (n1 {name: $source, ..}), (n2 {name: $target, ..}) *)
Endpoints(ns, source, target, user) ==
    Ids(Match(ns, NoLabel, source, user)) \X Ids(Match(ns, NoLabel, target, user))

(* delete_query of _update_relationship                                    *)
DeleteQuery(ns, es, source, target, user) ==
    {e \in es : <<e.src, e.dst>> \notin Endpoints(ns, source, target, user)}

(* CREATE (n1)-[r:type]->(n2) for every row.                               *)
RECURSIVE CreateEdges(_, _, _)
CreateEdges(es, pairs, type) ==
    IF pairs = {} THEN es
    ELSE LET p == CHOOSE q \in pairs : TRUE
         IN CreateEdges(es \cup {[id |-> FreshId(Ids(es)), src |-> p[1],
                                  type |-> type, dst |-> p[2], created |-> NoTime]},
                        pairs \ {p}, type)

(* create_query of _update_relationship: the edges after it, and the       *)
(* number of rows it returns.                                              *)
CreateQuery(ns, es, source, target, relationship, user) ==
    [edges |-> CreateEdges(es, Endpoints(ns, source, target, user), relationship),
     rows |-> Cardinality(Endpoints(ns, source, target, user))]

(* delete_all deleting the embedded nodes of the user only: the variant    *)
(* C7 has to tell from DeleteAllQuery.                                     *)
DeleteAllEmbedded(ns, es, user) ==
    LET gone == Ids({n \in ns : n.user = user /\ n.embedding # NoEmbedding})
    IN [nodes |-> {n \in ns : n.id \notin gone},
        edges |-> {e \in es : e.src \notin gone /\ e.dst \notin gone}]

(* MATCH (n {user_id: $user_id}) DETACH DELETE n                           *)
DeleteAllQuery(ns, es, user) ==
    LET gone == Ids({n \in ns : n.user = user})
    IN [nodes |-> {n \in ns : n.user # user},
        edges |-> {e \in es : e.src \notin gone /\ e.dst \notin gone}]

(* A set of rows as a list, each row carrying a distinct key: the row of   *)
(* the least key first.                                                    *)
RECURSIVE ListOf(_)
ListOf(rows) ==
    IF rows = {} THEN <<>>
    ELSE LET r == CHOOSE x \in rows : \A y \in rows : x.key <= y.key
         IN <<r>> \o ListOf(rows \ {r})

(* The query of get_all, one row per edge between two nodes of the user.   *)
GetAllQuery(ns, es, user) ==
    ListOf({[key |-> e.id,
             source |-> NodeOf(ns, e.src).name,
             relationship |-> e.type,
             target |-> NodeOf(ns, e.dst).name] :
            e \in {x \in es : /\ NodeOf(ns, x.src).user = user
                              /\ NodeOf(ns, x.dst).user = user}})

(* The filter of _search without n.user_id = $user_id: the variant C1 has  *)
(* to tell from Similar.                                                   *)
SimilarAnyUser(ns, n_embedding, threshold, user) ==
    {n \in ns : /\ n.embedding # NoEmbedding
                /\ Similarity(n.embedding, n_embedding) >= threshold}

(* The filter of _search with similarity > $threshold: the variant C8 has  *)
(* to tell from Similar.                                                   *)
SimilarStrict(ns, n_embedding, threshold, user) ==
    {n \in ns : /\ n.embedding # NoEmbedding
                /\ n.user = user
                /\ Similarity(n.embedding, n_embedding) > threshold}

(* WHERE n.embedding IS NOT NULL AND n.user_id = $user_id ... WHERE        *)
(* similarity >= $threshold                                                *)
Similar(ns, n_embedding, threshold, user) ==
    {n \in ns : /\ n.embedding # NoEmbedding
                /\ n.user = user
                /\ Similarity(n.embedding, n_embedding) >= threshold}

SearchRow(n, r, m, similarity) ==
    [source |-> n.name, source_id |-> n.id,
     relation |-> r.type, relation_id |-> r.id,
     destination |-> m.name, destination_id |-> m.id,
     similarity |-> similarity]

(* The greatest elementId in use, 0 if there is none.                      *)
Top(S) == IF S = {} THEN 0 ELSE CHOOSE i \in Ids(S) : \A j \in Ids(S) : j <= i

Unkeyed(list) == [k \in DOMAIN list |-> list[k].row]

(* cypher_query of _search: the outgoing edges of every similar node, in   *)
(* the order of the store (nodes, then their edges, by elementId), UNION   *)
(* the incoming edges of every similar node, which ORDER BY similarity     *)
(* DESC puts most similar first: the ORDER BY belongs to the second RETURN *)
(* alone.  UNION drops a row of the second part equal to an earlier row.   *)
SearchQuery(ns, es, n_embedding, threshold, user) ==
    LET hit == Similar(ns, n_embedding, threshold, user)
        sim(n) == Similarity(n.embedding, n_embedding)
        place(n, r) == n.id * (Top(es) + 1) + r.id
        out == {[key |-> place(x[1], x[2]),
                 row |-> SearchRow(x[1], x[2], NodeOf(ns, x[2].dst), sim(x[1]))] :
                  x \in {y \in hit \X es : y[2].src = y[1].id}}
        inc == {[key |-> (Precision - sim(x[1])) * (Top(ns) + 1) * (Top(es) + 1)
                          + place(x[1], x[2]),
                 row |-> SearchRow(NodeOf(ns, x[2].src), x[2], x[1], sim(x[1]))] :
                  x \in {y \in hit \X es : y[2].dst = y[1].id}}
        first == Unkeyed(ListOf(out))
        second == Unkeyed(ListOf(inc))
        New(row) == \A k \in DOMAIN first : first[k] # row
    IN first \o SelectSeq(second, New)

---------------------------------------------------------------------------
(* Tool calls of the language model, and the calls in progress.            *)

NoArg == <<>>

AddCalls ==
    [name : {"add_graph_memory"}, source : {Al}, source_type : RawTypes,
     relationship : {RIs}, destination : {AC}, destination_type : {TOrg}]

UpdateCalls ==
    [name : {"update_graph_memory"}, source : {Al}, source_type : {NoArg},
     relationship : RawRels, destination : {AC}, destination_type : {NoArg}]

NoopCalls ==
    [name : {"noop"}, source : {NoArg}, source_type : {NoArg},
     relationship : {NoArg}, destination : {NoArg}, destination_type : {NoArg}]

ToolCalls == AddCalls \cup UpdateCalls \cup NoopCalls

SeqsUpTo(S, n) == UNION {[1..k -> S] : k \in 0..n}

(* memory_updates['tool_calls'] of one reconciliation response             *)
Replies == SeqsUpTo(ToolCalls, MaxCalls)

(* tokenized_query = query.split(" "), for a query of one word             *)
QueryWords == {Al, RWas, Normalize(RIs)}

(* list(set(node_list)): distinct names in the order the set yields them   *)
CandLists ==
    {c \in SeqsUpTo(CandNames, MaxCands) :
        \A i, j \in DOMAIN c : i # j => c[i] # c[j]}

NoUpd == [source |-> NoArg, target |-> NoArg, relationship |-> NoArg]

NoCall ==
    [op |-> "none", user |-> None, reply |-> <<>>, cands |-> <<>>, query |-> <<>>,
     result_relations |-> <<>>, i |-> 0,
     to_be_added |-> <<>>, upd |-> NoUpd, log |-> <<>>,
     interfered |-> None, at |-> "none", prev |-> None]

NoRet == [outcome |-> "none", result |-> <<>>, ranked |-> FALSE]

Returned(outcome) == [NoRet EXCEPT !.outcome = outcome]

---------------------------------------------------------------------------
Init ==
    /\ nodes = {}
    /\ edges = {}
    /\ clock = 0
    /\ user_id = None
    /\ pc = "idle"
    /\ call = NoCall
    /\ ret = NoRet

(* timestamp() advances between queries.                                   *)
Tick ==
    /\ clock < MaxClock
    /\ clock' = clock + 1
    /\ UNCHANGED <<nodes, edges, user_id, pc, call, ret>>

(* The caller assigns the user_id attribute that __init__ leaves None.     *)
SetUserId(u) ==
    /\ pc = "idle"
    /\ user_id # u
    /\ user_id' = u
    /\ UNCHANGED <<nodes, edges, clock, pc, call, ret>>

(* add is called.  reply is what the language model is going to answer to  *)
(* the reconciliation prompt of this call.                                 *)
Add(u, reply) ==
    /\ pc = "idle"
    /\ call' = [NoCall EXCEPT !.op = "add", !.user = u, !.reply = reply]
    /\ pc' = "search"
    /\ UNCHANGED <<nodes, edges, clock, user_id, ret>>

(* add, line 54: search_output = self._search(data, filters).  _search     *)
(* only reads the store, and its rows only reach the reconciliation        *)
(* prompt, whose answer is reply: they are not kept.                       *)
AddSearch ==
    /\ pc = "search"
    /\ call' = [call EXCEPT !.log = <<<<"search", 0>>>>]
    /\ pc' = "extract"
    /\ UNCHANGED <<nodes, edges, clock, user_id, ret>>

(* add, lines 56-65: EXTRACT_ENTITIES_PROMPT.replace("USER_ID", None)      *)
(* raises TypeError.                                                       *)
AddPromptFails ==
    /\ pc = "extract"
    /\ user_id = None
    /\ pc' = "done"
    /\ ret' = Returned("TypeError")
    /\ UNCHANGED <<nodes, edges, clock, user_id, call>>

(* add, lines 56-81: the extraction model call                             *)
AddExtract ==
    /\ pc = "extract"
    /\ user_id # None
    /\ call' = [call EXCEPT !.log = Append(@, <<"extract", 0>>)]
    /\ pc' = "reconcile"
    /\ UNCHANGED <<nodes, edges, clock, user_id, ret>>

(* add, lines 83-94: the reconciliation model call, answered by reply      *)
AddReconcile ==
    /\ pc = "reconcile"
    /\ call' = [call EXCEPT !.log = Append(@, <<"reconcile", 0>>),
                            !.i = 1]
    /\ pc' = "dispatch"
    /\ UNCHANGED <<nodes, edges, clock, user_id, ret>>

(* The add_graph_memory branch writing its addition at once as well as     *)
(* queueing it: the variant C9 has to tell from DispatchAdd.               *)
DispatchAddEager ==
    LET item == call.reply[call.i]
        written == UpsertQuery(nodes, edges, Normalize(item.source),
                               Normalize(item.source_type),
                               Normalize(item.relationship),
                               Normalize(item.destination),
                               Normalize(item.destination_type), call.user, clock)
    IN /\ pc = "dispatch"
       /\ call.i <= Len(call.reply)
       /\ item.name = "add_graph_memory"
       /\ nodes' = written.nodes
       /\ edges' = written.edges
       /\ call' = [call EXCEPT !.to_be_added = Append(@, item),
                               !.log = Append(@, <<"queue", call.i>>),
                               !.i = @ + 1]
       /\ UNCHANGED <<clock, user_id, pc, ret>>

(* add, lines 97-98                                                        *)
DispatchAdd ==
    /\ pc = "dispatch"
    /\ call.i <= Len(call.reply)
    /\ call.reply[call.i].name = "add_graph_memory"
    /\ call' = [call EXCEPT !.to_be_added = Append(@, call.reply[call.i]),
                            !.log = Append(@, <<"queue", call.i>>),
                            !.i = @ + 1]
    /\ UNCHANGED <<nodes, edges, clock, user_id, pc, ret>>

(* add, lines 99-100: enters _update_relationship                          *)
DispatchUpdate ==
    /\ pc = "dispatch"
    /\ call.i <= Len(call.reply)
    /\ call.reply[call.i].name = "update_graph_memory"
    /\ call' = [call EXCEPT !.upd = [source |-> call.reply[call.i].source,
                                     target |-> call.reply[call.i].destination,
                                     relationship |-> call.reply[call.i].relationship]]
    /\ pc' = "upd_merge"
    /\ UNCHANGED <<nodes, edges, clock, user_id, ret>>

(* add, lines 101-102                                                      *)
DispatchNoop ==
    /\ pc = "dispatch"
    /\ call.i <= Len(call.reply)
    /\ call.reply[call.i].name = "noop"
    /\ call' = [call EXCEPT !.log = Append(@, <<"noop", call.i>>), !.i = @ + 1]
    /\ UNCHANGED <<nodes, edges, clock, user_id, pc, ret>>

(* add, line 104: the first loop is over                                   *)
DispatchDone ==
    /\ pc = "dispatch"
    /\ call.i > Len(call.reply)
    /\ call' = [call EXCEPT !.i = 1]
    /\ pc' = "upsert"
    /\ UNCHANGED <<nodes, edges, clock, user_id, ret>>

(* _update_relationship called by itself                                   *)
UpdateRelationship(u, source, target, relationship) ==
    /\ pc = "idle"
    /\ call' = [NoCall EXCEPT !.op = "update", !.user = u,
                              !.upd = [source |-> source, target |-> target,
                                       relationship |-> relationship]]
    /\ pc' = "upd_merge"
    /\ UNCHANGED <<nodes, edges, clock, user_id, ret>>

(* _update_relationship, lines 295-302                                     *)
UpdCheckAndCreate ==
    /\ pc = "upd_merge"
    /\ nodes' = CheckAndCreateQuery(nodes, call.upd.source, call.upd.target, call.user)
    /\ Cardinality(nodes') <= MaxNodes
    /\ call' = [call EXCEPT !.upd.relationship = Normalize(@)]
    /\ pc' = "upd_delete"
    /\ UNCHANGED <<edges, clock, user_id, ret>>

(* _update_relationship, lines 304-309                                     *)
UpdDelete ==
    /\ pc = "upd_delete"
    /\ edges' = DeleteQuery(nodes, edges, call.upd.source, call.upd.target, call.user)
    /\ pc' = "upd_create"
    /\ UNCHANGED <<nodes, clock, user_id, call, ret>>

UpdCreated ==
    CreateQuery(nodes, edges, call.upd.source, call.upd.target,
                call.upd.relationship, call.user)

(* _update_relationship, lines 311-320, the create query returning rows    *)
UpdCreate ==
    /\ pc = "upd_create"
    /\ UpdCreated.rows > 0
    /\ edges' = UpdCreated.edges
    /\ Cardinality(edges') <= MaxEdges
    /\ IF call.op = "update"
       THEN /\ pc' = "done"
            /\ ret' = Returned("ok")
            /\ UNCHANGED call
       ELSE /\ pc' = "dispatch"
            /\ call' = [call EXCEPT !.log = Append(@, <<"update", call.i>>),
                                    !.i = @ + 1]
            /\ UNCHANGED ret
    /\ UNCHANGED <<nodes, clock, user_id>>

(* _update_relationship, lines 319-320: no row, the exception leaves       *)
(* _update_relationship and add.                                           *)
UpdRaise ==
    /\ pc = "upd_create"
    /\ UpdCreated.rows = 0
    /\ edges' = UpdCreated.edges
    /\ pc' = "done"
    /\ ret' = Returned("Exception")
    /\ UNCHANGED <<nodes, clock, user_id, call>>

Upserted ==
    LET item == call.to_be_added[call.i]
    IN UpsertQuery(nodes, edges, Normalize(item.source), Normalize(item.source_type),
                   Normalize(item.relationship), Normalize(item.destination),
                   Normalize(item.destination_type), call.user, clock)

(* add, lines 104-136: one queued addition                                 *)
AddUpsert ==
    /\ pc = "upsert"
    /\ call.i <= Len(call.to_be_added)
    /\ nodes' = Upserted.nodes
    /\ edges' = Upserted.edges
    /\ Cardinality(nodes') <= MaxNodes
    /\ Cardinality(edges') <= MaxEdges
    /\ call' = [call EXCEPT !.log = Append(@, <<"upsert", call.i>>), !.i = @ + 1]
    /\ UNCHANGED <<clock, user_id, pc, ret>>

(* add, line 138                                                           *)
AddReturn ==
    /\ pc = "upsert"
    /\ call.i > Len(call.to_be_added)
    /\ pc' = "done"
    /\ ret' = Returned("ok")
    /\ UNCHANGED <<nodes, edges, clock, user_id, call>>

(* A row as a document of the corpus of the ranker.                        *)
Doc(row) == <<row.source, row.relation, row.destination>>

(* BM25: doc_freqs[doc][word]                                              *)
Freq(doc, word) == Cardinality({i \in DOMAIN doc : doc[i] = word})

(* BM25: nd[word], the number of documents that hold the word              *)
Nd(corpus, word) == Cardinality({k \in DOMAIN corpus : Freq(corpus[k], word) > 0})

Vocabulary(corpus) == {corpus[k][i] : k \in DOMAIN corpus, i \in 1..3}

RECURSIVE GCD(_, _)
GCD(a, b) == IF b = 0 THEN a ELSE GCD(b, a % b)

(* BM25Okapi._calc_idf: idf_sum is the logarithm of the product, over the  *)
(* words, of (N - nd + 0.5) / (nd + 0.5); the product as a fraction in     *)
(* lowest terms.                                                           *)
RECURSIVE IdfProduct(_, _, _, _)
IdfProduct(corpus, words, num, den) ==
    IF words = {} THEN <<num, den>>
    ELSE LET w == CHOOSE x \in words : TRUE
             a == num * (2 * Len(corpus) - 2 * Nd(corpus, w) + 1)
             b == den * (2 * Nd(corpus, w) + 1)
         IN IdfProduct(corpus, words \ {w}, a \div GCD(a, b), b \div GCD(a, b))

Sign(x) == IF x > 0 THEN 1 ELSE IF x < 0 THEN 0 - 1 ELSE 0

(* The sign of average_idf, which is the sign of eps = 0.25 * average_idf  *)
AverageIdfSign(corpus) ==
    LET p == IdfProduct(corpus, Vocabulary(corpus), 1, 1) IN Sign(p[1] - p[2])

(* The sign of self.idf.get(word) or 0: log(N - nd + 0.5) - log(nd + 0.5), *)
(* replaced by eps when it is negative; 0 for a word of no document.       *)
IdfSign(corpus, word) ==
    LET nd == Nd(corpus, word)
    IN IF nd = 0 THEN 0
       ELSE IF 2 * nd < Len(corpus) THEN 1
       ELSE IF 2 * nd = Len(corpus) THEN 0
       ELSE AverageIdfSign(corpus)

(* q_freq * (k1 + 1) / (q_freq + k1 * (1 - b + b * doc_len / avgdl)) with  *)
(* k1 = 1.5 and doc_len = avgdl = 3 (every document has three words), in   *)
(* units of 1/63: 5 q_freq / (2 q_freq + 3).                               *)
Weight(q_freq) == (315 * q_freq) \div (2 * q_freq + 3)

(* BM25Okapi.get_scores for a query of one word, up to the factor |idf|,   *)
(* which is the same for every document.                                   *)
Scores(corpus, word) ==
    [k \in DOMAIN corpus |-> IdfSign(corpus, word) * Weight(Freq(corpus[k], word))]

(* np.argsort(scores)[::-1]: the greatest score first, and of two equal    *)
(* scores the later document first.                                        *)
RECURSIVE Ranked(_, _)
Ranked(scores, left) ==
    IF left = {} THEN <<>>
    ELSE LET best == CHOOSE k \in left : \A j \in left :
                        scores[k] > scores[j] \/ (scores[k] = scores[j] /\ k >= j)
         IN <<best>> \o Ranked(scores, left \ {best})

(* The ranking returned whole, without n = 5: the variant C6 has to tell   *)
(* from TopOf.                                                             *)
TopOfAll(rows, query) ==
    LET corpus == [k \in DOMAIN rows |-> Doc(rows[k])]
        order == Ranked(Scores(corpus, query), DOMAIN corpus)
    IN [k \in DOMAIN order |->
          [source |-> corpus[order[k]][1], relation |-> corpus[order[k]][2],
           destination |-> corpus[order[k]][3]]]

(* search, lines 221-233: bm25.get_top_n(tokenized_query, corpus, n=5) and *)
(* the entries made of its documents.                                      *)
TopOf(rows, query) ==
    LET corpus == [k \in DOMAIN rows |-> Doc(rows[k])]
        order == Ranked(Scores(corpus, query), DOMAIN corpus)
        top_n == SubSeq(order, 1, IF Len(order) < TopN THEN Len(order) ELSE TopN)
    IN [k \in DOMAIN top_n |->
          [source |-> corpus[top_n[k]][1], relation |-> corpus[top_n[k]][2],
           destination |-> corpus[top_n[k]][3]]]

(* search is called, line 216; _search, lines 142-169: cands are the node  *)
(* names of the model's search tool call.                                  *)
Search(u, cands, query) ==
    /\ pc = "idle"
    /\ call' = [NoCall EXCEPT !.op = "search", !.user = u, !.cands = cands,
                              !.query = query, !.i = 1]
    /\ ret' = NoRet
    /\ pc' = "s_query"
    /\ UNCHANGED <<nodes, edges, clock, user_id>>

(* _search, lines 171-198: the retrieval query of one candidate            *)
SearchNode ==
    /\ pc = "s_query"
    /\ call.i <= Len(call.cands)
    /\ call' = [call EXCEPT
                  !.result_relations =
                      @ \o SearchQuery(nodes, edges,
                                       Embed(Normalize(call.cands[call.i])),
                                       Threshold, call.user),
                  !.i = @ + 1]
    /\ UNCHANGED <<nodes, edges, clock, user_id, pc, ret>>

(* _search returns, line 200; search, lines 218-237                       *)
SearchReturn ==
    /\ pc = "s_query"
    /\ call.i > Len(call.cands)
    /\ ret' = IF call.result_relations = <<>>
              THEN Returned("ok")
              ELSE [outcome |-> "ok",
                    result |-> TopOf(call.result_relations, call.query),
                    ranked |-> TRUE]
    /\ pc' = "done"
    /\ UNCHANGED <<nodes, edges, clock, user_id, call>>

RECURSIVE FinalResults(_, _)
FinalResults(results, k) ==
    IF k > Len(results) THEN <<>>
    ELSE <<[source |-> results[k].source,
            relationship |-> results[k].relationship,
            target |-> results[k].target]>> \o FinalResults(results, k + 1)

(* get_all, lines 262-278                                                  *)
GetAll(u) ==
    /\ pc = "idle"
    /\ call' = [NoCall EXCEPT !.op = "get_all", !.user = u, !.prev = call.prev]
    /\ ret' = [Returned("ok") EXCEPT
                 !.result = FinalResults(GetAllQuery(nodes, edges, u), 1)]
    /\ pc' = "done"
    /\ UNCHANGED <<nodes, edges, clock, user_id>>

(* delete_all, lines 241-246                                               *)
DeleteAll(u) ==
    /\ pc = "idle"
    /\ nodes' = DeleteAllQuery(nodes, edges, u).nodes
    /\ edges' = DeleteAllQuery(nodes, edges, u).edges
    /\ call' = [NoCall EXCEPT !.op = "delete_all", !.user = u]
    /\ ret' = Returned("ok")
    /\ pc' = "done"
    /\ UNCHANGED <<clock, user_id>>

(* The caller has the result (or the exception) and may call again; prev   *)
(* remembers a delete_all that has just completed.                         *)
Return ==
    /\ pc = "done"
    /\ pc' = "idle"
    /\ call' = [NoCall EXCEPT !.prev = IF call.op = "delete_all" THEN call.user
                                       ELSE None]
    /\ ret' = NoRet
    /\ UNCHANGED <<nodes, edges, clock, user_id>>

(* Another caller's delete_all(filters = {user_id: u}) reaches the store    *)
(* between two queries of the call in progress; interfered and at remember *)
(* it and where the call was.                                              *)
Interfere(u) ==
    /\ pc \notin {"idle", "done"}
    /\ call.interfered = None
    /\ nodes' = DeleteAllQuery(nodes, edges, u).nodes
    /\ edges' = DeleteAllQuery(nodes, edges, u).edges
    /\ call' = [call EXCEPT !.interfered = u, !.at = pc]
    /\ UNCHANGED <<clock, user_id, pc, ret>>

(* The steps of a call while no other caller reaches the store.            *)
Sequential ==
    \/ AddSearch
    \/ AddPromptFails
    \/ AddExtract
    \/ AddReconcile
    \/ DispatchAdd
    \/ DispatchUpdate
    \/ DispatchNoop
    \/ DispatchDone
    \/ UpdCheckAndCreate
    \/ UpdDelete
    \/ UpdCreate
    \/ AddUpsert
    \/ AddReturn
    \/ Return

(* The steps of a search while no other caller reaches the store.          *)
Searching ==
    \/ SearchNode
    \/ SearchReturn

(* The calls of one tenant, another caller's delete_all interleaved.       *)
Next ==
    \/ SetUserId("u1")
    \/ \E reply \in Replies : Add("u1", reply)
    \/ \E c \in UpdateCalls :
          UpdateRelationship("u1", c.source, c.destination, c.relationship)
    \/ GetAll("u1")
    \/ DeleteAll("u1")
    \/ Interfere("u1")
    \/ UpdRaise
    \/ Tick
    \/ Sequential

Spec == Init /\ [][Next]_vars

(* The adds and the searches of one tenant, another caller's delete_all    *)
(* interleaved.                                                            *)
NextSearch ==
    \/ SetUserId("u1")
    \/ \E reply \in Replies : Add("u1", reply)
    \/ \E cands \in CandLists, query \in QueryWords : Search("u1", cands, query)
    \/ Interfere("u1")
    \/ UpdRaise
    \/ Sequential
    \/ Searching

SpecSearch == Init /\ [][NextSearch]_vars

(* Two tenants, one caller at a time, with short model responses.          *)
TenantCalls ==
    {c \in ToolCalls : /\ c.name = "add_graph_memory" => c.source_type = TPerson
                       /\ c.name = "update_graph_memory" => c.relationship = RWas}

ShortReplies == SeqsUpTo(TenantCalls, 1)

ShortCandLists == SeqsUpTo(CandNames, 1)

NextTenants ==
    \/ SetUserId("u1")
    \/ \E u \in Users, reply \in ShortReplies : Add(u, reply)
    \/ \E u \in Users, c \in UpdateCalls \cap TenantCalls :
          UpdateRelationship(u, c.source, c.destination, c.relationship)
    \/ \E u \in Users, cands \in ShortCandLists, query \in QueryWords :
          Search(u, cands, query)
    \/ \E u \in Users : GetAll(u)
    \/ \E u \in Users : DeleteAll(u)
    \/ Sequential
    \/ Searching

SpecTenants == Init /\ [][NextTenants]_vars

---------------------------------------------------------------------------
(* Properties.                                                             *)

OwnedNodes(ns, u) == {n \in ns : n.user = u}

OwnedEdges(ns, es, u) ==
    {e \in es : \E n \in OwnedNodes(ns, u) : e.src = n.id \/ e.dst = n.id}

SearchDone == pc = "done" /\ call.op = "search"

C1_Reads ==
    /\ \A e \in edges : NodeOf(nodes, e.src).user = NodeOf(nodes, e.dst).user
    /\ call.op = "search" =>
          \A k \in DOMAIN call.result_relations :
              /\ NodeOf(nodes, call.result_relations[k].source_id).user = call.user
              /\ NodeOf(nodes, call.result_relations[k].destination_id).user = call.user
    /\ (pc = "done" /\ call.op = "get_all") =>
          ret.result =
             FinalResults(GetAllQuery(OwnedNodes(nodes, call.user),
                                      {e \in edges : \A u \in Users \ {call.user} :
                                           e \notin OwnedEdges(nodes, edges, u)},
                                      call.user), 1)

C1_Frame ==
    \A u \in Users :
        u # call'.user =>
            /\ OwnedNodes(nodes', u) = OwnedNodes(nodes, u)
            /\ OwnedEdges(nodes', edges', u) = OwnedEdges(nodes, edges, u)

(* C1: a step made for one user leaves the nodes and edges of every other  *)
(* user as they are, no edge joins nodes of two users, the rows _search    *)
(* returns to a user have both endpoints owned by that user, and get_all   *)
(* returns what it returns on the user's own nodes and edges alone.        *)
C1_TenancyIsolation == [](C1_Reads) /\ [][C1_Frame]_vars

(* A search of u1 that returned rows while u2 owns an edge between         *)
(* embedded nodes.                                                         *)
C1_Witness ==
    /\ SearchDone
    /\ call.user = "u1"
    /\ call.result_relations # <<>>
    /\ \E e \in OwnedEdges(nodes, edges, "u2") :
          NodeOf(nodes, e.src).embedding # NoEmbedding

AddDone == pc = "done" /\ call.op = "add"

(* The nodes and the edge an add_graph_memory decision asks for.           *)
Applied(item, u) ==
    \E n, m \in nodes :
        /\ n.name = Normalize(item.source)
        /\ n.label = Normalize(item.source_type)
        /\ n.user = u
        /\ m.name = Normalize(item.destination)
        /\ m.label = Normalize(item.destination_type)
        /\ m.user = u
        /\ \E e \in edges :
              e.src = n.id /\ e.type = Normalize(item.relationship) /\ e.dst = m.id

(* C2: when add has ended, no other caller having reached the store, the   *)
(* graph holds the two nodes and the edge of every add_graph_memory call   *)
(* of the reconciliation response of that call.                            *)
C2_AddAppliesDecisions ==
    (AddDone /\ call.interfered = None) =>
        \A k \in DOMAIN call.reply :
            call.reply[k].name = "add_graph_memory" => Applied(call.reply[k], call.user)

SameFact(x, y) ==
    /\ Normalize(x.source) = Normalize(y.source)
    /\ Normalize(x.source_type) = Normalize(y.source_type)
    /\ Normalize(x.relationship) = Normalize(y.relationship)
    /\ Normalize(x.destination) = Normalize(y.destination)
    /\ Normalize(x.destination_type) = Normalize(y.destination_type)

(* The queued addition just written, if the call is in the upsert loop.    *)
JustUpserted == pc = "upsert" /\ call.i > 1 /\ call.interfered = None

C3_OnePerIdentity ==
    /\ \A n, m \in nodes :
          (n.name = m.name /\ n.label = m.label /\ n.user = m.user) => n = m
    /\ \A e, f \in edges :
          (e.src = f.src /\ e.type = f.type /\ e.dst = f.dst) => e = f
    /\ JustUpserted => Applied(call.to_be_added[call.i - 1], call.user)

(* The step writes a queued addition whose fact the step before wrote.     *)
C3_Second ==
    /\ JustUpserted
    /\ pc' = "upsert"
    /\ call'.i = call.i + 1
    /\ call'.interfered = None
    /\ SameFact(call.to_be_added[call.i - 1], call.to_be_added[call.i])

C3_Unchanged ==
    C3_Second =>
        /\ edges' = edges
        /\ Ids(nodes') = Ids(nodes)
        /\ \A n \in nodes :
              /\ [NodeOf(nodes', n.id) EXCEPT !.embedding = n.embedding] = n
              /\ NodeOf(nodes', n.id).embedding \in {n.embedding, Embed(n.name)}

(* C3: the store never holds two nodes of one (name, label, user_id) nor   *)
(* two edges of one (source node, type, destination node); after an upsert *)
(* the nodes and the edge of its fact are there; and an upsert of the fact *)
(* the upsert before it wrote adds no node and no edge and changes no      *)
(* property but the embeddings, which it sets to the embedding of the name.*)
C3_UpsertIdempotent == [](C3_OnePerIdentity) /\ [][C3_Unchanged]_vars

(* The same fact has been written twice, the clock having moved on since   *)
(* its nodes were created.                                                 *)
C3_Witness ==
    /\ JustUpserted
    /\ call.i = 3
    /\ SameFact(call.to_be_added[1], call.to_be_added[2])
    /\ clock > 0
    /\ \A n \in nodes : n.created = 0
    /\ \A e \in edges : e.created = 0

UpdateDone == pc = "done" /\ call.op = "update" /\ ret.outcome = "ok"

(* The edges from a node named source to a node named target, of a user.   *)
Between(source, target, u) ==
    {e \in edges : <<e.src, e.dst>> \in Endpoints(nodes, source, target, u)}

(* C4: when _update_relationship has returned, no other caller having      *)
(* reached the store, there is exactly one edge from source to target for  *)
(* the user, and its type is the normalized relationship.                  *)
C4_ExactlyOneEdge ==
    (UpdateDone /\ call.interfered = None) =>
        /\ Cardinality(Between(call.upd.source, call.upd.target, call.user)) = 1
        /\ \A e \in Between(call.upd.source, call.upd.target, call.user) :
              e.type = Normalize(call.upd.relationship)

(* C5: every stored node name, type label and relation label is in         *)
(* normalized form.                                                        *)
C5_AllNormalized ==
    /\ \A n \in nodes : n.name = Normalize(n.name) /\ n.label = Normalize(n.label)
    /\ \A e \in edges : e.type = Normalize(e.type)

(* What _search returned to the search that has just returned.             *)
Retrieved == call.result_relations

Triple(row) ==
    [source |-> row.source, relation |-> row.relation, destination |-> row.destination]

(* C6: search returns at most 5 entries, each the {source, relation,       *)
(* destination} of a row of _search, and returns [] without the re-ranker  *)
(* when _search returns no row.                                            *)
C6_SearchCap ==
    SearchDone =>
        /\ Len(ret.result) <= 5
        /\ \A k \in DOMAIN ret.result :
              \E j \in DOMAIN Retrieved : ret.result[k] = Triple(Retrieved[j])
        /\ Retrieved = <<>> => (ret.result = <<>> /\ ~ret.ranked)

(* A search whose retrieval found more than 5 rows.                        *)
C6_Witness ==
    /\ SearchDone
    /\ Len(Retrieved) > 5
    /\ Len(ret.result) = 5
    /\ ret.ranked

(* C7: when delete_all of a user has completed, no node of the user and no *)
(* edge at such a node is left and the query of get_all finds nothing; and *)
(* a get_all of the user called next returns [].                           *)
C7_DeleteAllThenGetAll ==
    /\ (pc = "done" /\ call.op = "delete_all") =>
          /\ OwnedNodes(nodes, call.user) = {}
          /\ OwnedEdges(nodes, edges, call.user) = {}
          /\ \A e \in edges : e.src \in Ids(nodes) /\ e.dst \in Ids(nodes)
          /\ GetAllQuery(nodes, edges, call.user) = <<>>
    /\ (pc = "done" /\ call.op = "get_all" /\ call.prev = call.user) =>
          ret.result = <<>>

(* get_all of u1 right after delete_all of u1, the other tenant still      *)
(* owning an edge.                                                         *)
C7_Witness ==
    /\ pc = "done"
    /\ call.op = "get_all"
    /\ call.user = "u1"
    /\ call.prev = "u1"
    /\ OwnedEdges(nodes, edges, "u2") # {}

(* den * cos(a, b) >= num, for the cosine of two embeddings of the table   *)
CosineAtLeast(a, b, num, den) ==
    den * Dot(a, b) >= num * Sqrt(Dot(a, a)) * Sqrt(Dot(b, b))

Incident(n) == {e \in edges : e.src = n.id \/ e.dst = n.id}

(* The rows a node brings to the result, as the node similar to cand.      *)
RowsOf(n, cand) ==
    {j \in DOMAIN call.result_relations :
        /\ call.result_relations[j].similarity = Cosine4(n.embedding, Embed(Normalize(cand)))
        /\ call.result_relations[j].source_id = n.id \/ call.result_relations[j].destination_id = n.id}

ContributesAll(n, cand) ==
    \A e \in Incident(n) : \E j \in RowsOf(n, cand) : call.result_relations[j].relation_id = e.id

Searched == {n \in OwnedNodes(nodes, call.user) : n.embedding # NoEmbedding}

(* C8 as claimed: a node at cosine similarity 0.70 or more brings all its  *)
(* edges, a node at cosine similarity below 0.70 brings none.              *)
C8_StrictThreshold ==
    (SearchDone /\ call.interfered = None) =>
        \A k \in DOMAIN call.cands : \A n \in Searched :
            IF CosineAtLeast(n.embedding, Embed(Normalize(call.cands[k])), 7, 10)
            THEN ContributesAll(n, call.cands[k])
            ELSE RowsOf(n, call.cands[k]) = {}

(* C8, amended: the similarity compared with the threshold is the cosine   *)
(* rounded to 4 decimals, so a node at cosine similarity 0.69995 or more   *)
(* (0.70 included) brings all its edges and a node below 0.69995 none.     *)
C8_RoundedThreshold ==
    (SearchDone /\ call.interfered = None) =>
        \A k \in DOMAIN call.cands : \A n \in Searched :
            IF CosineAtLeast(n.embedding, Embed(Normalize(call.cands[k])), 13999, 20000)
            THEN ContributesAll(n, call.cands[k])
            ELSE RowsOf(n, call.cands[k]) = {}

(* One search met a node at cosine similarity exactly 0.70 and a node      *)
(* between 0.69995 and 0.70, each with an edge, and one below 0.69995.     *)
C8_Witness ==
    /\ SearchDone
    /\ call.interfered = None
    /\ \E k \in DOMAIN call.cands : \E n \in Searched :
          /\ Incident(n) # {}
          /\ CosineAtLeast(n.embedding, Embed(Normalize(call.cands[k])), 7, 10)
          /\ ~CosineAtLeast(n.embedding, Embed(Normalize(call.cands[k])), 7001, 10000)
    /\ \E k \in DOMAIN call.cands : \E n \in Searched :
          /\ Incident(n) # {}
          /\ CosineAtLeast(n.embedding, Embed(Normalize(call.cands[k])), 13999, 20000)
          /\ ~CosineAtLeast(n.embedding, Embed(Normalize(call.cands[k])), 7, 10)
    /\ \E k \in DOMAIN call.cands : \E n \in Searched :
          /\ Incident(n) # {}
          /\ ~CosineAtLeast(n.embedding, Embed(Normalize(call.cands[k])), 13999, 20000)

(* The events one add call logs when nothing fails: the three calls, one  *)
(* event per tool call of the response, one upsert per queued addition.    *)
EventOf(item) ==
    IF item.name = "add_graph_memory" THEN "queue"
    ELSE IF item.name = "update_graph_memory" THEN "update" ELSE "noop"

IsAddition(item) == item.name = "add_graph_memory"

Expected(reply) ==
    <<<<"search", 0>>, <<"extract", 0>>, <<"reconcile", 0>>>>
    \o [k \in 1..Len(reply) |-> <<EventOf(reply[k]), k>>]
    \o [j \in 1..Len(SelectSeq(reply, IsAddition)) |-> <<"upsert", j>>]

Dispatched == Cardinality({k \in DOMAIN call.log : call.log[k][2] > 0
                                                   /\ call.log[k][1] # "upsert"})

C9_Order ==
    call.op = "add" =>
        /\ Len(call.log) <= Len(Expected(call.reply))
        /\ call.log = SubSeq(Expected(call.reply), 1, Len(call.log))
        /\ call.to_be_added =
              SelectSeq(SubSeq(call.reply, 1, Dispatched), IsAddition)

(* The edge an update_graph_memory decision asks for is in the next state. *)
Replaced(item, u) ==
    \E n, m \in nodes' : \E e \in edges' :
        /\ n.name = item.source /\ n.user = u
        /\ m.name = item.destination /\ m.user = u
        /\ e.src = n.id /\ e.dst = m.id /\ e.type = Normalize(item.relationship)

(* The nodes and the edge an add_graph_memory decision asks for are in the *)
(* next state.                                                             *)
Written(item, u) ==
    \E n, m \in nodes' : \E e \in edges' :
        /\ n.name = Normalize(item.source) /\ n.label = Normalize(item.source_type)
        /\ m.name = Normalize(item.destination)
        /\ m.label = Normalize(item.destination_type)
        /\ n.user = u /\ m.user = u
        /\ e.src = n.id /\ e.dst = m.id /\ e.type = Normalize(item.relationship)

C9_Steps ==
    (call.op = "add" /\ call'.op = "add" /\ call'.interfered = call.interfered) =>
        IF call'.log = call.log
        THEN <<nodes', edges'>> # <<nodes, edges>> =>
                pc \in {"upd_merge", "upd_delete", "upd_create"}
        ELSE LET ev == call'.log[Len(call'.log)]
             IN CASE ev[1] = "update" -> Replaced(call.reply[ev[2]], call.user)
                  [] ev[1] = "upsert" -> Written(call.to_be_added[ev[2]], call.user)
                  [] OTHER -> nodes' = nodes /\ edges' = edges

(* C9: the queries of add come in the order search, extraction,            *)
(* reconciliation, then one step per tool call in response order, an       *)
(* update_graph_memory call replacing its relationship in the graph at     *)
(* once, an add_graph_memory call only joining the queue and a noop        *)
(* changing nothing; the queued additions are written after the last tool  *)
(* call, in response order, one query each.                                *)
C9_AddOrdering == [](C9_Order) /\ [][C9_Steps]_vars

(* An add has written its queued addition after the update_graph_memory    *)
(* call that came after it in the response.                                *)
C9_Witness ==
    /\ AddDone
    /\ ret.outcome = "ok"
    /\ call.log = <<<<"search", 0>>, <<"extract", 0>>, <<"reconcile", 0>>,
                    <<"queue", 1>>, <<"update", 2>>, <<"upsert", 1>>>>

Raised == pc = "done" /\ ret.outcome = "Exception"

C10_Raised ==
    /\ Raised =>
          /\ call.interfered = call.user
          /\ call.at \in {"upd_delete", "upd_create"}
          /\ Endpoints(nodes, call.upd.source, call.upd.target, call.user) = {}
          /\ \A k \in DOMAIN call.log : call.log[k][1] # "upsert"
    /\ (pc = "done" /\ call.op \in {"add", "update"} /\ call.interfered = None) =>
          ret.outcome # "Exception"

C10_Steps ==
    (pc = "upd_create" /\ pc' # "upd_create") =>
        /\ ret'.outcome = "Exception" <=> UpdCreated.rows = 0
        /\ ret'.outcome = "Exception" =>
              /\ nodes' = nodes
              /\ edges' = edges
              /\ call'.to_be_added = call.to_be_added

(* C10: _update_relationship raises exactly when its create query returns  *)
(* no row; with no other caller between its queries it never raises; when  *)
(* it raises, a delete_all of the same user came between the merge and the *)
(* create, the graph is left as it is and no queued addition of the        *)
(* enclosing add is written.                                               *)
C10_RaiseOnlyInterleaved == [](C10_Raised) /\ [][C10_Steps]_vars

(* An add with a queued addition ended by the exception of its             *)
(* update_graph_memory call.                                               *)
C10_Witness ==
    /\ Raised
    /\ call.op = "add"
    /\ Len(call.to_be_added) > 0
    /\ call.interfered = "u1"

=============================================================================
